---- MODULE Spec2Model ----
(***************************************************************************)
(* roundtrip_ini, package ast: decoding, structural editing and encoding   *)
(* of the INI format, preserving comments and blank lines.                 *)
(*                                                                         *)
(* A text is a sequence of one-character strings.  The lexer rules of      *)
(* NewParser cut it into tokens, the grammar written in the struct tags of *)
(* AST, Property, Section, String and Number builds the tree (a top-down   *)
(* parse whose branches may back off at most Lookahead tokens), the editor *)
(* operations change the tree and the String methods write it back as      *)
(* text.                                                                   *)
(***************************************************************************)
EXTENDS Integers, Sequences, FiniteSets, TLC

VARIABLES
    text,   \* the text handed to ParseString
    pc,     \* "input", "parsed", "failed" or "rendered"
    tree,   \* the AST returned by ParseString (Nil before, and on error)
    out,    \* the text returned by the last call of AST.String (empty before)
    prev,   \* the tree as it was before the last editor call
    last,   \* the last editor call: its name and arguments
    ret,    \* what the last Lookup / LookupSection returned (Nil: absent)
    base,   \* when the last editor call repeats the call before it: the tree
            \* as it was before that first call (Nil otherwise)
    nops,   \* number of editor calls made on the tree
    round   \* number of times an output was parsed again

vars == <<text, pc, tree, out, prev, last, ret, base, nops, round>>

\* Go's nil, for a tree or a node that is absent.
Nil == [nil |-> TRUE]

(***************************************************************************)
(* Bounds of the model.                                                    *)
(***************************************************************************)
\* Longest text of the round-trip specification, in lines.
MaxLines == 4
\* Longest document of the editing specification, in lines.
MaxDocLines == 2
\* Most editor calls made on one tree.
MaxOps == 2
\* Most times an output is parsed again.
MaxRounds == 1
\* Longest run of comment lines put before a section header or a property.
MaxRun == 3

(***************************************************************************)
(* Characters.                                                             *)
(***************************************************************************)
NL == "\n"
TAB == "\t"
QUOTE == "\""
BSLASH == "\\"

\* A character of a text is a rune, written as a string: the printable ASCII
\* characters as themselves, the control characters and the other runes up to
\* U+00FF by a name.  Runes above U+00FF are outside the model: RuneOf has no
\* value for them.
Letter == { "a", "b", "c", "d", "e", "f", "g", "h", "i", "j", "k", "l", "m",
           "n", "o", "p", "q", "r", "s", "t", "u", "v", "w", "x", "y", "z",
           "A", "B", "C", "D", "E", "F", "G", "H", "I", "J", "K", "L", "M",
           "N", "O", "P", "Q", "R", "S", "T", "U", "V", "W", "X", "Y", "Z" }
Digit == {"0", "1", "2", "3", "4", "5", "6", "7", "8", "9"}
BEL == "BEL"
BS == "BS"
VT == "VT"
FF == "\f"
CR == "\r"
BACKTICK == "BACKTICK"

\* The runes U+0020 .. U+007E in their order.
Printable ==
    << " ", "!", "\"", "#", "$", "%", "&", "'", "(", ")", "*", "+",
       ",", "-", ".", "/", "0", "1", "2", "3", "4", "5", "6", "7",
       "8", "9", ":", ";", "<", "=", ">", "?", "@", "A", "B", "C",
       "D", "E", "F", "G", "H", "I", "J", "K", "L", "M", "N", "O",
       "P", "Q", "R", "S", "T", "U", "V", "W", "X", "Y", "Z", "[",
       "\\", "]", "^", "_", BACKTICK, "a", "b", "c", "d", "e", "f", "g",
       "h", "i", "j", "k", "l", "m", "n", "o", "p", "q", "r", "s",
       "t", "u", "v", "w", "x", "y", "z", "{", "|", "}", "~" >>

\* The last code point of the model: its runes are U+0000 .. U+00FF.
MaxRune == 255

\* The rune of a code point.
RuneOf ==
    [n \in 0..MaxRune |->
        CASE n \in 32..126 -> Printable[n - 31]
          [] n = 7 -> BEL [] n = 8 -> BS [] n = 9 -> TAB [] n = 10 -> NL
          [] n = 11 -> VT [] n = 12 -> FF [] n = 13 -> CR
          [] OTHER -> "U+" \o ToString(n)]

\* The code point of a rune.
CodeOf(c) == CHOOSE n \in 0..MaxRune : RuneOf[n] = c

DigitVal(d) ==
    CASE d = "0" -> 0 [] d = "1" -> 1 [] d = "2" -> 2 [] d = "3" -> 3 [] d = "4" -> 4
      [] d = "5" -> 5 [] d = "6" -> 6 [] d = "7" -> 7 [] d = "8" -> 8 [] d = "9" -> 9

\* strconv's unhex: the value of a hexadecimal digit, -1 for another character.
HexVal(c) ==
    CASE c \in Digit -> DigitVal(c)
      [] c \in {"a", "A"} -> 10 [] c \in {"b", "B"} -> 11 [] c \in {"c", "C"} -> 12
      [] c \in {"d", "D"} -> 13 [] c \in {"e", "E"} -> 14 [] c \in {"f", "F"} -> 15
      [] OTHER -> -1

\* strconv's lowerhex: the digit of a value 0 .. 15.
HexChar(n) ==
    <<"0", "1", "2", "3", "4", "5", "6", "7", "8", "9", "a", "b", "c", "d", "e", "f">>[n + 1]

RECURSIVE Concat(_)
\* strings.Builder: the pieces written, one after the other.
Concat(ss) == IF ss = <<>> THEN <<>> ELSE Head(ss) \o Concat(Tail(ss))

(***************************************************************************)
(* The lexer: the rules of NewParser.  Each Match operator answers, for    *)
(* the text t and a position i, the position after the longest match of    *)
(* its rule at i, or 0 when the rule does not match there.                 *)
(***************************************************************************)
RECURSIVE IdentEnd(_, _)
IdentEnd(t, i) ==
    IF i <= Len(t) /\ t[i] \in Letter \cup Digit \cup {"_"} THEN IdentEnd(t, i + 1) ELSE i

\* {`Ident`, `[a-zA-Z][a-zA-Z_\d]*`}
MatchIdent(t, i) == IF t[i] \in Letter THEN IdentEnd(t, i + 1) ELSE 0

RECURSIVE StringEnd(_, _)
\* The body of the String rule, (?:\\.|[^"])*" from position i: the alternatives
\* in the order the regular expression prefers them.
StringEnd(t, i) ==
    IF i > Len(t) THEN 0
    ELSE LET esc == IF t[i] = BSLASH /\ i + 1 <= Len(t) /\ t[i + 1] # NL
                    THEN StringEnd(t, i + 2) ELSE 0
         IN  IF esc # 0 THEN esc
             ELSE IF t[i] # QUOTE THEN StringEnd(t, i + 1)
             ELSE i + 1

\* {`String`, `"(?:\\.|[^"])*"`}
MatchString(t, i) == IF t[i] = QUOTE THEN StringEnd(t, i + 1) ELSE 0

RECURSIVE DigitsEnd(_, _)
DigitsEnd(t, i) == IF i <= Len(t) /\ t[i] \in Digit THEN DigitsEnd(t, i + 1) ELSE i

\* {`Float`, `\d+(?:\.\d+)?`}
MatchFloat(t, i) ==
    IF t[i] \notin Digit THEN 0
    ELSE LET e == DigitsEnd(t, i + 1)
         IN  IF e + 1 <= Len(t) /\ t[e] = "." /\ t[e + 1] \in Digit
             THEN DigitsEnd(t, e + 2) ELSE e

\* {`Punct`, `[][=]`}
MatchPunct(t, i) == IF t[i] \in {"[", "]", "="} THEN i + 1 ELSE 0

RECURSIVE LineEnd(_, _)
LineEnd(t, i) == IF i <= Len(t) /\ t[i] # NL THEN LineEnd(t, i + 1) ELSE i

\* {"Comment", `[#;][^\n]*`}
MatchComment(t, i) == IF t[i] \in {"#", ";"} THEN LineEnd(t, i + 1) ELSE 0

\* {"NewLine", `\n`}
MatchNewLine(t, i) == IF t[i] = NL THEN i + 1 ELSE 0

RECURSIVE BlankEnd(_, _)
BlankEnd(t, i) == IF i <= Len(t) /\ t[i] \in {TAB, " "} THEN BlankEnd(t, i + 1) ELSE i

\* {"whitespace", `[\t ]+`}: the rule's name is lower case, its tokens are elided.
MatchWhitespace(t, i) == IF t[i] \in {TAB, " "} THEN BlankEnd(t, i + 1) ELSE 0

\* A syntax error of strconv.UnquoteChar.
ErrSyntax == [ok |-> FALSE, value |-> "", tail |-> 0]

\* v = v<<4 | x of strconv.UnquoteChar; -1 once a character was no hexadecimal digit.
HexShift(v, x) == IF v = -1 \/ x = -1 THEN -1 ELSE 16 * v + x

RECURSIVE HexValue(_, _, _)
\* The value of the hexadecimal digits s[i] .. s[j].
HexValue(s, i, j) ==
    IF j < i THEN 0 ELSE HexShift(HexValue(s, i, j - 1), HexVal(s[j]))

\* utf8.ValidRune
ValidRune(v) == (0 <= v /\ v < 55296) \/ (57343 < v /\ v <= 1114111)

OctalDigit == {"0", "1", "2", "3", "4", "5", "6", "7"}

\* The one-character escapes of strconv.UnquoteChar inside double quotes.
EscapeOf(c) ==
    CASE c = "a" -> BEL [] c = "b" -> BS [] c = "f" -> FF [] c = "n" -> NL
      [] c = "r" -> CR [] c = "t" -> TAB [] c = "v" -> VT
      [] c = BSLASH -> BSLASH [] c = QUOTE -> QUOTE

\* The end of a numeric escape \c... of value v: \u and \U must be a valid rune,
\* an octal escape at most 255, \x is a byte.  The value is appended as a rune
\* (participle: out += string(value)).
RuneResult(v, c, tail) ==
    IF v = -1 THEN ErrSyntax
    ELSE IF c \in {"u", "U"} /\ ~ValidRune(v) THEN ErrSyntax
    ELSE IF c \in OctalDigit /\ v > 255 THEN ErrSyntax
    ELSE [ok |-> TRUE, value |-> RuneOf[v], tail |-> tail]

\* \xhh, \uhhhh, \Uhhhhhhhh: n hexadecimal digits behind s[j] = c, of which rest
\* characters are left before the closing quote.  Eight digits of which the
\* first is 8 or more make the int32 negative: no valid rune.
UnquoteHex(s, j, c, n, rest) ==
    IF rest < n THEN ErrSyntax
    ELSE IF n = 8 /\ HexVal(s[j + 1]) >= 8 THEN ErrSyntax
    ELSE RuneResult(HexValue(s, j + 1, j + n), c, j + n + 1)

\* \ooo: two more octal digits behind s[j] = c.
UnquoteOctal(s, j, c, rest) ==
    IF rest < 2 THEN ErrSyntax
    ELSE IF s[j + 1] \notin OctalDigit \/ s[j + 2] \notin OctalDigit THEN ErrSyntax
    ELSE RuneResult(64 * DigitVal(c) + 8 * DigitVal(s[j + 1]) + DigitVal(s[j + 2]), c, j + 3)

\* The escape whose character behind the backslash is s[j] = c.
UnquoteEscape(s, j, c, rest) ==
    IF c \in {"a", "b", "f", "n", "r", "t", "v", BSLASH, QUOTE}
    THEN [ok |-> TRUE, value |-> EscapeOf(c), tail |-> j + 1]
    ELSE IF c \in {"x", "u", "U"}
    THEN UnquoteHex(s, j, c, IF c = "x" THEN 2 ELSE IF c = "u" THEN 4 ELSE 8, rest)
    ELSE IF c \in OctalDigit THEN UnquoteOctal(s, j, c, rest)
    ELSE ErrSyntax

\* strconv.UnquoteChar(s, '"') at position i of the token s, whose last
\* character is the closing quote: the rune read and the position behind it.
UnquoteChar(s, i) ==
    IF s[i] = QUOTE THEN ErrSyntax
    ELSE IF s[i] # BSLASH THEN [ok |-> TRUE, value |-> s[i], tail |-> i + 1]
    ELSE IF i + 1 >= Len(s) THEN ErrSyntax
    ELSE UnquoteEscape(s, i + 1, s[i + 1], Len(s) - 2 - i)

RECURSIVE UnquoteFrom(_, _, _)
\* One step of participle's unquote: r is what strconv.UnquoteChar returned.
UnquoteNext(s, acc, r) ==
    IF r.ok THEN UnquoteFrom(s, r.tail, Append(acc, r.value))
    ELSE [ok |-> FALSE, value |-> <<>>]

\* participle.Unquote("String"): strconv.UnquoteChar over the characters between
\* the quotes (positions i .. Len(s) - 1 of the token s).
UnquoteFrom(s, i, acc) ==
    IF i >= Len(s) THEN [ok |-> TRUE, value |-> acc]
    ELSE UnquoteNext(s, acc, UnquoteChar(s, i))

Unquote(s) == UnquoteFrom(s, 2, <<>>)

Token(type, value) == [type |-> type, value |-> value]

RECURSIVE LexFrom(_, _, _)
\* The tokens of t from position i on, after acc: the first rule that matches at
\* i gives the next token; a position where no rule matches, or a String token
\* that cannot be unquoted, is an error.
LexFrom(t, i, acc) ==
    IF i > Len(t) THEN [ok |-> TRUE, toks |-> acc]
    ELSE LET id == MatchIdent(t, i)
             st == MatchString(t, i)
             fl == MatchFloat(t, i)
             pu == MatchPunct(t, i)
             co == MatchComment(t, i)
             nl == MatchNewLine(t, i)
             ws == MatchWhitespace(t, i)
             Err == [ok |-> FALSE, toks |-> <<>>]
         IN  IF id # 0 THEN LexFrom(t, id, Append(acc, Token("Ident", SubSeq(t, i, id - 1))))
             ELSE IF st # 0
                  THEN LET u == Unquote(SubSeq(t, i, st - 1))
                       IN  IF u.ok THEN LexFrom(t, st, Append(acc, Token("String", u.value)))
                           ELSE Err
             ELSE IF fl # 0 THEN LexFrom(t, fl, Append(acc, Token("Float", SubSeq(t, i, fl - 1))))
             ELSE IF pu # 0 THEN LexFrom(t, pu, Append(acc, Token("Punct", SubSeq(t, i, pu - 1))))
             ELSE IF co # 0 THEN LexFrom(t, co, Append(acc, Token("Comment", SubSeq(t, i, co - 1))))
             ELSE IF nl # 0 THEN LexFrom(t, nl, Append(acc, Token("NewLine", SubSeq(t, i, nl - 1))))
             ELSE IF ws # 0 THEN LexFrom(t, ws, acc)
             ELSE Err

Lex(t) == LexFrom(t, 1, <<>>)

(***************************************************************************)
(* The tree.                                                               *)
(***************************************************************************)
\* type String struct: the text of a quoted string, unquoted.
String(s) == [type |-> "String", S |-> s]

\* type Number struct: a float64.  The model's numbers are the decimals of at
\* most Float64Digits significant digits, which a float64 tells apart and
\* strconv.FormatFloat writes back as they are: int holds the digits of the
\* integer part without leading zeros (<<"0">> for zero), frac the digits of the
\* fraction without trailing zeros; neg is the sign, which only a caller of Add
\* can set (ast.Number{N: -1}).
Number(int, frac) ==
    [type |-> "Number", N |-> [neg |-> FALSE, int |-> int, frac |-> frac]]

\* The number -v.
Minus(v) == [v EXCEPT !.N.neg = TRUE]

\* type Property struct
Property(comments, key, value, blankLines) ==
    [Comments |-> comments, Key |-> key, Value |-> value, BlankLines |-> blankLines]

\* type Section struct
Section(comments, name, blankLines, properties) ==
    [Comments |-> comments, Name |-> name, BlankLines |-> blankLines,
     Properties |-> properties]

\* type AST struct (Pos, the position of the first token, is left out: no
\* operation reads it)
AST(blankLines, properties, sections) ==
    [BlankLines |-> blankLines, Properties |-> properties, Sections |-> sections]

(***************************************************************************)
(* The parser that participle builds from the struct tags.  Every operator *)
(* works on the token sequence toks from token position i and answers      *)
(* where it stopped (pos).                                                 *)
(***************************************************************************)
\* participle.UseLookahead(4)
Lookahead == 4

TokIs(toks, i, type) == i <= Len(toks) /\ toks[i].type = type

\* A quoted literal of a tag, such as '=': it matches a token by its value.
TokLit(toks, i, c) == i <= Len(toks) /\ toks[i].value = <<c>>

RECURSIVE TrimZeros(_)
TrimZeros(ds) ==
    IF ds # <<>> /\ ds[Len(ds)] = "0" THEN TrimZeros(SubSeq(ds, 1, Len(ds) - 1)) ELSE ds

RECURSIVE TrimLeadingZeros(_)
TrimLeadingZeros(ds) ==
    IF ds # <<>> /\ ds[1] = "0" THEN TrimLeadingZeros(Tail(ds)) ELSE ds

\* The decimal digits a float64 always keeps, and the longest token whose value
\* is neither rounded to zero or a subnormal nor out of range.
Float64Digits == 15
Float64MaxLen == 300

\* The digits of int.frac from its first digit that is not zero to its last.
Significant(int, frac) == TrimZeros(TrimLeadingZeros(int \o frac))

\* The position of the point of a Float token, behind its end when it has none.
DotOf(v) ==
    IF \E k \in 1..Len(v) : v[k] = "." THEN CHOOSE k \in 1..Len(v) : v[k] = "."
    ELSE Len(v) + 1

\* The float64 of the decimal int.frac.  A decimal of at most Float64Digits
\* significant digits stands for one float64, which is kept as that decimal;
\* Decimal has no value for longer decimals, which the code rounds to the
\* nearest float64.
Decimal(int, frac) ==
    CASE Len(Significant(int, frac)) <= Float64Digits ->
             Number(IF int = <<>> THEN <<"0">> ELSE int, frac)

DecimalAt(v, dot) ==
    Decimal(TrimLeadingZeros(SubSeq(v, 1, dot - 1)), TrimZeros(SubSeq(v, dot + 1, Len(v))))

\* Number.N `parser:"@Float"`: strconv.ParseFloat(token, 64).  ParseFloat has no
\* value for tokens longer than Float64MaxLen, whose value may be out of range.
ParseFloat(v) == CASE Len(v) <= Float64MaxLen -> DecimalAt(v, DotOf(v))

RECURSIVE CommentRun(_, _, _)
\* `parser:"(@Comment NewLine)*"`
CommentRun(toks, i, acc) ==
    IF TokIs(toks, i, "Comment") /\ TokIs(toks, i + 1, "NewLine")
    THEN CommentRun(toks, i + 2, Append(acc, toks[i].value))
    ELSE [pos |-> i, items |-> acc]

RECURSIVE NewLineRun(_, _, _)
\* `parser:"@NewLine*"`
NewLineRun(toks, i, acc) ==
    IF TokIs(toks, i, "NewLine") THEN NewLineRun(toks, i + 1, Append(acc, toks[i].value))
    ELSE [pos |-> i, items |-> acc]

\* `parser:"... NewLine?"`
OptNewLine(toks, i) == IF TokIs(toks, i, "NewLine") THEN i + 1 ELSE i

\* A value parser that gives a number token a value of both variants.
ParseValue_BothVariants(toks, i) ==
    IF TokIs(toks, i, "String") THEN String(toks[i].value)
    ELSE IF TokIs(toks, i, "Float")
         THEN [type |-> "Number", N |-> ParseFloat(toks[i].value).N, S |-> toks[i].value]
    ELSE Nil

\* participle.Union[Value](String{}, Number{}): S `parser:"@String"` or
\* N `parser:"@Float"`; Nil when the token is neither.
ParseValue(toks, i) ==
    IF TokIs(toks, i, "String") THEN String(toks[i].value)
    ELSE IF TokIs(toks, i, "Float") THEN ParseFloat(toks[i].value)
    ELSE Nil

\* type Property: (@Comment NewLine)*  @Ident '='  @@ NewLine?  @NewLine*
\* On a mismatch ok is FALSE and pos is the token the branch had reached.
ParseProperty(toks, i) ==
    LET c == CommentRun(toks, i, <<>>)
        j == c.pos
        Fail(at) == [ok |-> FALSE, pos |-> at, node |-> Nil]
    IN  IF ~TokIs(toks, j, "Ident") THEN Fail(j)
        ELSE IF ~TokLit(toks, j + 1, "=") THEN Fail(j + 1)
        ELSE IF ParseValue(toks, j + 2) = Nil THEN Fail(j + 2)
        ELSE LET b == NewLineRun(toks, OptNewLine(toks, j + 3), <<>>)
             IN  [ok |-> TRUE, pos |-> b.pos,
                  node |-> Property(c.items, toks[j].value, ParseValue(toks, j + 2), b.items)]

RECURSIVE ParseProperties(_, _, _)
\* Properties []*Property `parser:"@@*"`: each Property is tried on a branch.  A
\* branch that fails ends the repetition when it has read at most Lookahead
\* tokens, and fails the parse when it has read more.
ParseProperties(toks, i, acc) ==
    LET r == ParseProperty(toks, i)
    IN  IF r.ok THEN ParseProperties(toks, r.pos, Append(acc, r.node))
        ELSE IF r.pos > i + Lookahead THEN [ok |-> FALSE, pos |-> r.pos, items |-> acc]
        ELSE [ok |-> TRUE, pos |-> i, items |-> acc]

\* type Section: (@Comment NewLine)*  '[' @Ident ']' NewLine?  @NewLine*  @@*
ParseSection(toks, i) ==
    LET c == CommentRun(toks, i, <<>>)
        j == c.pos
        Fail(at) == [ok |-> FALSE, pos |-> at, node |-> Nil]
    IN  IF ~TokLit(toks, j, "[") THEN Fail(j)
        ELSE IF ~TokIs(toks, j + 1, "Ident") THEN Fail(j + 1)
        ELSE IF ~TokLit(toks, j + 2, "]") THEN Fail(j + 2)
        ELSE LET b == NewLineRun(toks, OptNewLine(toks, j + 3), <<>>)
                 ps == ParseProperties(toks, b.pos, <<>>)
             IN  IF ~ps.ok THEN Fail(ps.pos)
                 ELSE [ok |-> TRUE, pos |-> ps.pos,
                       node |-> Section(c.items, toks[j + 1].value, b.items, ps.items)]

RECURSIVE ParseSections(_, _, _)
\* Sections []*Section `parser:"@@*"`, with the same rule for a failing branch.
ParseSections(toks, i, acc) ==
    LET r == ParseSection(toks, i)
    IN  IF r.ok THEN ParseSections(toks, r.pos, Append(acc, r.node))
        ELSE IF r.pos > i + Lookahead THEN [ok |-> FALSE, pos |-> r.pos, items |-> acc]
        ELSE [ok |-> TRUE, pos |-> i, items |-> acc]

\* type AST: @NewLine*  @@*  @@*, and then the end of the input.
ParseAST(toks) ==
    LET b  == NewLineRun(toks, 1, <<>>)
        ps == ParseProperties(toks, b.pos, <<>>)
        ss == ParseSections(toks, ps.pos, <<>>)
    IN  IF ps.ok /\ ss.ok /\ ss.pos > Len(toks)
        THEN [ok |-> TRUE, tree |-> AST(b.items, ps.items, ss.items)]
        ELSE [ok |-> FALSE, tree |-> Nil]

\* parser.ParseString("", t): the outcomes of parsing the text t.  A text without
\* any token (empty, or only blanks) matches none of the three repetitions of
\* AST; whether participle then returns the empty tree or reports an unexpected
\* end of input depends on its version, so both are outcomes.
ParseString(t) ==
    LET lx == Lex(t)
    IN  IF ~lx.ok THEN {[ok |-> FALSE, tree |-> Nil]}
        ELSE IF lx.toks = <<>> THEN {ParseAST(lx.toks), [ok |-> FALSE, tree |-> Nil]}
        ELSE {ParseAST(lx.toks)}

(***************************************************************************)
(* The encoder: the String methods.                                        *)
(***************************************************************************)
\* strconv.IsPrint for the runes up to U+00FF.
IsPrint(n) == (32 <= n /\ n <= 126) \/ (161 <= n /\ n <= 255 /\ n # 173)

RECURSIVE HexDigits(_, _)
\* The last k hexadecimal digits of n.
HexDigits(n, k) ==
    IF k = 0 THEN <<>> ELSE Append(HexDigits(n \div 16, k - 1), HexChar(n % 16))

\* strconv's appendEscapedRune for the rune c of code n.
QuoteRune(c, n) ==
    CASE c = QUOTE -> <<BSLASH, QUOTE>>
      [] c = BSLASH -> <<BSLASH, BSLASH>>
      [] c \notin {QUOTE, BSLASH} /\ IsPrint(n) -> <<c>>
      [] c = BEL -> <<BSLASH, "a">>
      [] c = BS -> <<BSLASH, "b">>
      [] c = FF -> <<BSLASH, "f">>
      [] c = NL -> <<BSLASH, "n">>
      [] c = CR -> <<BSLASH, "r">>
      [] c = TAB -> <<BSLASH, "t">>
      [] c = VT -> <<BSLASH, "v">>
      [] OTHER -> IF n < 32 \/ n = 127 THEN <<BSLASH, "x">> \o HexDigits(n, 2)
                  ELSE <<BSLASH, "u">> \o HexDigits(n, 4)

\* strconv.Quote, one rune: what fmt's %q writes for it.
QuoteChar(c) == QuoteRune(c, CodeOf(c))

\* func (s String) String() string: fmt.Sprintf("%q", s.S)
String_String(v) ==
    <<QUOTE>> \o Concat([k \in 1..Len(v.S) |-> QuoteChar(v.S[k])]) \o <<QUOTE>>

\* func (nu Number) String() string: strconv.FormatFloat(nu.N, 'f', -1, 64), the
\* shortest decimal that reads back as the same number.
Number_String(v) ==
    (IF v.N.neg THEN <<"-">> ELSE <<>>)
      \o v.N.int \o (IF v.N.frac = <<>> THEN <<>> ELSE <<".">> \o v.N.frac)

\* The %s verb on a Value: the String method of its type.
Value_String(v) == IF v.type = "String" THEN String_String(v) ELSE Number_String(v)

\* fmt.Fprintln of each element of a []string
Lines(ss) == Concat([k \in 1..Len(ss) |-> ss[k] \o <<NL>>])

\* A Property encoder that forgets the blank lines after the property.
Property_String_NoBlankLines(prop) ==
    Lines(prop.Comments)
      \o prop.Key \o <<" ", "=", " ">> \o Value_String(prop.Value) \o <<NL>>

\* func (prop *Property) String() string
Property_String(prop) ==
    Lines(prop.Comments)
      \o prop.Key \o <<" ", "=", " ">> \o Value_String(prop.Value) \o <<NL>>
      \o Concat([k \in 1..Len(prop.BlankLines) |-> <<NL>>])

\* A Section encoder that writes no newline after the header.
Section_String_NoNewline(sec) ==
    Lines(sec.Comments)
      \o <<"[">> \o sec.Name \o <<"]">>
      \o Concat([k \in 1..Len(sec.BlankLines) |-> <<NL>>])
      \o Concat([k \in 1..Len(sec.Properties) |-> Property_String(sec.Properties[k])])

\* func (sec *Section) String() string
Section_String(sec) ==
    Lines(sec.Comments)
      \o <<"[">> \o sec.Name \o <<"]", NL>>
      \o Concat([k \in 1..Len(sec.BlankLines) |-> <<NL>>])
      \o Concat([k \in 1..Len(sec.Properties) |-> Property_String(sec.Properties[k])])

\* An AST encoder that also writes the blank lines recorded for the root.
AST_String_WithBlankLines(t) ==
    Concat([k \in 1..Len(t.BlankLines) |-> <<NL>>])
      \o Concat([k \in 1..Len(t.Properties) |-> Property_String(t.Properties[k])])
      \o Concat([k \in 1..Len(t.Sections) |-> Section_String(t.Sections[k])])

\* func (tree *AST) String() string
AST_String(t) ==
    Concat([k \in 1..Len(t.Properties) |-> Property_String(t.Properties[k])])
      \o Concat([k \in 1..Len(t.Sections) |-> Section_String(t.Sections[k])])

(***************************************************************************)
(* The editor operations.                                                  *)
(***************************************************************************)
\* path.Split: the path up to and with its last slash, and what follows it.
pathSplit(keyPath) ==
    LET slashes == {k \in 1..Len(keyPath) : keyPath[k] = "/"}
        cut == IF slashes = {} THEN 0 ELSE CHOOSE k \in slashes : \A m \in slashes : m <= k
    IN  [dir |-> SubSeq(keyPath, 1, cut), file |-> SubSeq(keyPath, cut + 1, Len(keyPath))]

\* strings.TrimSuffix(s, "/")
TrimSuffix(s) == IF s # <<>> /\ s[Len(s)] = "/" THEN SubSeq(s, 1, Len(s) - 1) ELSE s

\* section, key := path.Split(keyPath); section = strings.TrimSuffix(section, "/")
SectionOf(keyPath) == TrimSuffix(pathSplit(keyPath).dir)
KeyOf(keyPath) == pathSplit(keyPath).file

\* func (prop *Property) name() / func (sec *Section) name()
name(e) == IF "Key" \in DOMAIN e THEN e.Key ELSE e.Name

\* func index(a, name): the Go index (from 0) of the first element of a whose
\* name is nm, or -1.
index(a, nm) ==
    LET hits == {k \in 1..Len(a) : name(a[k]) = nm}
    IN  IF hits = {} THEN -1 ELSE (CHOOSE k \in hits : \A m \in hits : k <= m) - 1

\* A removeFromSlice that drops the element of Go index i and all after it.
removeFromSlice_Truncate(a, i) == SubSeq(a, 1, i)

\* func removeFromSlice(a, i): a without its element of Go index i.
removeFromSlice(a, i) == SubSeq(a, 1, i) \o SubSeq(a, i + 2, Len(a))

\* A Lookup that searches the key in every section of the given name, not only
\* in the first one.
Lookup_AnySection(t, keyPath) ==
    LET section == SectionOf(keyPath)
        key == KeyOf(keyPath)
        hits == {k \in 1..Len(t.Sections) :
                    name(t.Sections[k]) = section /\ index(t.Sections[k].Properties, key) # -1}
    IN  IF section = <<>>
        THEN LET i == index(t.Properties, key)
             IN  IF i # -1 THEN t.Properties[i + 1] ELSE Nil
        ELSE IF hits = {} THEN Nil
             ELSE LET si == CHOOSE k \in hits : \A m \in hits : k <= m
                  IN  t.Sections[si].Properties[index(t.Sections[si].Properties, key) + 1]

\* func (tree *AST) Lookup(keyPath string) *Property
Lookup(t, keyPath) ==
    LET section == SectionOf(keyPath)
        key == KeyOf(keyPath)
    IN  IF section = <<>>
        THEN LET i == index(t.Properties, key)
             IN  IF i # -1 THEN t.Properties[i + 1] ELSE Nil
        ELSE LET si == index(t.Sections, section)
             IN  IF si = -1 THEN Nil
                 ELSE LET i == index(t.Sections[si + 1].Properties, key)
                      IN  IF i # -1 THEN t.Sections[si + 1].Properties[i + 1] ELSE Nil

\* A write through a copy of the property: the tree does not change.
WriteComments_ToCopy(t, keyPath, comments) == t

\* prop := tree.Lookup(keyPath); prop.Comments = comments.  Lookup returns the
\* pointer tree.Properties[i] or sec.Properties[i], an element of a []*Property,
\* so the assignment changes the property that the tree holds, at the place
\* Lookup found it.
WriteComments(t, keyPath, comments) ==
    LET section == SectionOf(keyPath)
        key == KeyOf(keyPath)
    IN  IF section = <<>>
        THEN LET i == index(t.Properties, key)
             IN  [t EXCEPT !.Properties[i + 1].Comments = comments]
        ELSE LET si == index(t.Sections, section)
                 i == index(t.Sections[si + 1].Properties, key)
             IN  [t EXCEPT !.Sections[si + 1].Properties[i + 1].Comments = comments]

\* func (tree *AST) LookupSection(secName string) *Section
LookupSection(t, secName) ==
    LET i == index(t.Sections, secName)
    IN  IF i # -1 THEN t.Sections[i + 1] ELSE Nil

\* A Remove in which a key path without a section also removes the first section
\* whose name is the key.
Remove_SharedNamespace(t, keyPath) ==
    LET section == SectionOf(keyPath)
        key == KeyOf(keyPath)
    IN  IF section = <<>>
        THEN LET i == index(t.Properties, key)
                 si == index(t.Sections, key)
             IN  [t EXCEPT !.Properties = IF i # -1 THEN removeFromSlice(@, i) ELSE @,
                           !.Sections = IF si # -1 THEN removeFromSlice(@, si) ELSE @]
        ELSE LET si == index(t.Sections, section)
             IN  IF si = -1 THEN t
                 ELSE LET i == index(t.Sections[si + 1].Properties, key)
                      IN  IF i # -1
                          THEN [t EXCEPT !.Sections[si + 1].Properties =
                                             removeFromSlice(t.Sections[si + 1].Properties, i)]
                          ELSE t

\* func (tree *AST) Remove(keyPath string)
Remove(t, keyPath) ==
    LET section == SectionOf(keyPath)
        key == KeyOf(keyPath)
    IN  IF section = <<>>
        THEN LET i == index(t.Properties, key)
             IN  IF i # -1 THEN [t EXCEPT !.Properties = removeFromSlice(t.Properties, i)]
                 ELSE t
        ELSE LET si == index(t.Sections, section)
             IN  IF si = -1 THEN t
                 ELSE LET i == index(t.Sections[si + 1].Properties, key)
                      IN  IF i # -1
                          THEN [t EXCEPT !.Sections[si + 1].Properties =
                                             removeFromSlice(t.Sections[si + 1].Properties, i)]
                          ELSE t

\* A RemoveSection that removes every section of the given name.
RemoveSection_All(t, secName) ==
    [t EXCEPT !.Sections = SelectSeq(@, LAMBDA sec : name(sec) # secName)]

\* func (tree *AST) RemoveSection(secName string)
RemoveSection(t, secName) ==
    LET i == index(t.Sections, secName)
    IN  IF i # -1 THEN [t EXCEPT !.Sections = removeFromSlice(t.Sections, i)] ELSE t

\* An add that appends a new property even when the key is there already.
add_AlwaysAppend(properties, key, newVal) ==
    Append(properties, Property(<<>>, key, newVal, <<>>))

\* An add that puts a new property in front of the others.
add_Prepend(properties, key, newVal) ==
    LET i == index(properties, key)
    IN  IF i # -1 THEN [properties EXCEPT ![i + 1].Value = newVal]
        ELSE <<Property(<<>>, key, newVal, <<>>)>> \o properties

\* func add(properties *[]*Property, key string, newVal Value)
add(properties, key, newVal) ==
    LET i == index(properties, key)
    IN  IF i # -1 THEN [properties EXCEPT ![i + 1].Value = newVal]
        ELSE Append(properties, Property(<<>>, key, newVal, <<>>))

\* An Add that does nothing when the section of the key path is missing.
Add_NoNewSection(t, keyPath, newVal) ==
    LET section == SectionOf(keyPath)
        key == KeyOf(keyPath)
    IN  IF section = <<>> THEN [t EXCEPT !.Properties = add(t.Properties, key, newVal)]
        ELSE LET si == index(t.Sections, section)
             IN  IF si # -1
                 THEN [t EXCEPT !.Sections[si + 1].Properties =
                                    add(t.Sections[si + 1].Properties, key, newVal)]
                 ELSE t

\* An Add that, for a key path with a section, always appends a new section.
Add_AlwaysNewSection(t, keyPath, newVal) ==
    LET section == SectionOf(keyPath)
        key == KeyOf(keyPath)
    IN  IF section = <<>> THEN [t EXCEPT !.Properties = add(t.Properties, key, newVal)]
        ELSE [t EXCEPT !.Sections =
                  Append(t.Sections,
                         Section(<<>>, section, <<>>,
                                 <<Property(<<>>, key, newVal, <<>>)>>))]

\* An Add that takes the last section of the name, not the first.
Add_LastSection(t, keyPath, newVal) ==
    LET section == SectionOf(keyPath)
        key == KeyOf(keyPath)
        hits == {k \in 1..Len(t.Sections) : name(t.Sections[k]) = section}
    IN  IF section = <<>> THEN [t EXCEPT !.Properties = add(t.Properties, key, newVal)]
        ELSE IF hits # {}
             THEN LET si == CHOOSE k \in hits : \A m \in hits : m <= k
                  IN  [t EXCEPT !.Sections[si].Properties =
                                    add(t.Sections[si].Properties, key, newVal)]
             ELSE [t EXCEPT !.Sections =
                       Append(t.Sections,
                              Section(<<>>, section, <<>>,
                                      <<Property(<<>>, key, newVal, <<>>)>>))]

\* func (tree *AST) Add(keyPath string, newVal Value)
Add(t, keyPath, newVal) ==
    LET section == SectionOf(keyPath)
        key == KeyOf(keyPath)
    IN  IF section = <<>> THEN [t EXCEPT !.Properties = add(t.Properties, key, newVal)]
        ELSE LET si == index(t.Sections, section)
             IN  IF si # -1
                 THEN [t EXCEPT !.Sections[si + 1].Properties =
                                    add(t.Sections[si + 1].Properties, key, newVal)]
                 ELSE [t EXCEPT !.Sections =
                           Append(t.Sections,
                                  Section(<<>>, section, <<>>,
                                          <<Property(<<>>, key, newVal, <<>>)>>))]

(***************************************************************************)
(* The inputs of the model.                                                *)
(***************************************************************************)
RECURSIVE Join(_)
\* The lines, with a newline between one line and the next.
Join(lines) ==
    IF Len(lines) = 1 THEN lines[1] ELSE lines[1] \o <<NL>> \o Join(Tail(lines))

\* Every text of 1 to n lines, each line drawn from forms.
TextsOf(forms, n) == {Join(ls) : ls \in UNION {[1..k -> forms] : k \in 1..n}}

\* Lines of the round-trip texts:  a = 1,  b=2.50,  [s],  # c,  and the empty line.
LineForms ==
    { <<"a", " ", "=", " ", "1">>,
      <<"b", "=", "2", ".", "5", "0">>,
      <<"[", "s", "]">>,
      <<"#", " ", "c">>,
      <<>> }

\* Further round-trip texts: quoted strings with and without escapes, headers
\* and properties with other spacing, two nodes on one line, a comment after a
\* value, a text of blanks only, keys of other letters, strings with numeric
\* and control escapes.
MoreTexts ==
    { <<"a", " ", "=", " ", QUOTE, "y", BSLASH, QUOTE, "t", QUOTE, NL>>,
      <<"a", " ", "=", " ", QUOTE, "y", BSLASH, "n", BSLASH, BSLASH, QUOTE, NL>>,
      <<"a", " ", "=", " ", QUOTE, "y", NL, "t", QUOTE, NL>>,
      <<"a", " ", "=", " ", QUOTE, "y", BSLASH, "s", QUOTE, NL>>,
      <<"[", " ", "s", " ", "]", NL, "b", " ", "=", "2", NL>>,
      <<"a", " ", "=", " ", "1", " ", "b", " ", "=", " ", "2", NL>>,
      <<"[", "s", "]", " ", "a", " ", "=", " ", "0", "1", NL>>,
      <<"a", " ", "=", " ", "1", " ", "#", " ", "c", NL, "[", "s", "]", NL>>,
      <<";", "c", NL, TAB, "a", "_", "1", " ", "=", " ", "1", "0", ".", "0", "5", NL>>,
      <<" ", TAB>>,
      \* name = "Johnny Stecchino" of TestParseKeyValueWithString
      <<"n", "a", "m", "e", " ", "=", " ", QUOTE, "J", "o", "h", "n", "n", "y", " ",
        "S", "t", "e", "c", "c", "h", "i", "n", "o", QUOTE, NL>>,
      \* numeric escapes:  A = "\x41\101\u00e9"
      <<"A", " ", "=", " ", QUOTE, BSLASH, "x", "4", "1", BSLASH, "1", "0", "1",
        BSLASH, "u", "0", "0", "e", "9", QUOTE, NL>>,
      \* escapes as the encoder writes them:  Zz = "\r\f\v\x01\u00ad"
      <<"Z", "z", " ", "=", " ", QUOTE, BSLASH, "r", BSLASH, "f", BSLASH, "v",
        BSLASH, "x", "0", "1", BSLASH, "u", "0", "0", "a", "d", QUOTE, NL>>,
      \* a carriage return and a U+00E9 between the quotes
      <<"x", " ", "=", " ", QUOTE, CR, RuneOf[233], QUOTE, NL>>,
      \* escapes strconv.UnquoteChar refuses:  a = "\x4"  and  a = "\400"
      <<"a", " ", "=", " ", QUOTE, BSLASH, "x", "4", QUOTE, NL>>,
      <<"a", " ", "=", " ", QUOTE, BSLASH, "4", "0", "0", QUOTE, NL>>,
      \* a number of Float64Digits digits:  a = 0.123456789012345
      <<"a", " ", "=", " ", "0", ".", "1", "2", "3", "4", "5", "6", "7", "8", "9",
        "0", "1", "2", "3", "4", "5", NL>>,
      \* the "mix" input of TestRoundTripNoEdits
      <<"#", " ", "c", NL, "y", " ", "=", " ", QUOTE, "t", QUOTE, NL, NL,
        "#", " ", "c", NL, ";", " ", "c", NL, "[", "s", "1", "]", NL, NL,
        "b", " ", "=", " ", "2", NL>> }

PropertyLine == <<"a", " ", "=", " ", "1">>
HeaderLine == <<"[", "s", "]">>
CommentLine == <<"#", " ", "c">>

\* What a run of comment lines may follow: nothing, a global property, a section
\* header, a property of a section.
Contexts == { <<>>, <<PropertyLine>>, <<HeaderLine>>, <<HeaderLine, PropertyLine>> }

\* The lines of ctx, then n comment lines, then the line node, each with its newline.
RunBefore(ctx, n, node) ==
    Join(ctx \o [k \in 1..n |-> CommentLine] \o <<node, <<>>>>)

\* Comment runs of every length up to MaxRun before a header and before a property.
RunTexts ==
    { RunBefore(ctx, n, node) : ctx \in Contexts, n \in 1..MaxRun,
                                node \in {HeaderLine, PropertyLine} }

Texts == TextsOf(LineForms, MaxLines) \cup MoreTexts \cup RunTexts

\* Lines of the documents that are edited:  a = 1,  [s],  # c,  and the empty line.
DocLineForms ==
    { <<"a", " ", "=", " ", "1">>,
      <<"[", "s", "]">>,
      <<"#", " ", "c">>,
      <<>> }

\* Further documents that are edited, after the inputs of TestRemove,
\* TestRemoveSection, TestAdd and TestLookupSectionNotFound: a commented property
\* between blank lines, two sections of one name of which only the second holds
\* the key, a key and a section of one name, two properties of one key.
MoreDocs ==
    { <<"a", " ", "=", " ", "1", NL, NL,
        "#", " ", "c", NL, "b", " ", "=", " ", "2", NL, NL,
        "c", " ", "=", " ", "3", NL>>,
      <<"[", "s", "]", NL, "b", " ", "=", " ", "2", NL,
        ";", "c", NL, "[", "s", "]", NL, NL, "a", " ", "=", " ", "1", NL>>,
      <<"s", " ", "=", " ", QUOTE, "t", QUOTE, NL, "#", " ", "c", NL, "[", "a", "]", NL,
        "a", " ", "=", " ", QUOTE, "y", QUOTE, NL, "[", "s", "]", NL>>,
      <<"a", " ", "=", " ", "1", NL, "#", " ", "c", NL, "a", " ", "=", " ", "2", NL,
        "[", "s", "]", NL, "a", " ", "=", " ", "1", NL, NL, "a", " ", "=", " ", "2", NL>> }

Docs == TextsOf(DocLineForms, MaxDocLines) \cup MoreDocs

\* The key paths and section names the editor is called with.
Paths == { <<"a">>, <<"b">>, <<"s">>, <<"s", "/", "a">>, <<"t", "/", "b">> }
SecNames == { <<"s">>, <<"a">>, <<"t">> }

\* The values Add is called with: ast.String{S: "y"}, ast.Number{N: 2} and
\* ast.Number{N: -1}.
Values == { String(<<"y">>), Number(<<"2">>, <<>>), Minus(Number(<<"1">>, <<>>)) }

(***************************************************************************)
(* The state machine: a caller that parses a text, edits the tree and      *)
(* encodes it, as the tests and examples of the package do.                *)
(***************************************************************************)
Call(op, path, val) == [op |-> op, path |-> path, val |-> val]
NoCall == Call("none", <<>>, Nil)

Start(t) ==
    /\ text = t
    /\ pc = "input"
    /\ tree = Nil
    /\ out = <<>>
    /\ prev = Nil
    /\ last = NoCall
    /\ ret = Nil
    /\ base = Nil
    /\ nops = 0
    /\ round = 0

Init == \E t \in Docs : Start(t)

InitRT == \E t \in Texts : Start(t)

\* tree, err := parser.ParseString("", text)
CallParseString ==
    /\ pc = "input"
    /\ \E r \in ParseString(text) :
          /\ pc' = IF r.ok THEN "parsed" ELSE "failed"
          /\ tree' = r.tree
    /\ UNCHANGED <<text, out, prev, last, ret, base, nops, round>>

\* The frame of an editor call on the tree.
Edited(call, newTree, result) ==
    /\ pc = "parsed"
    /\ nops < MaxOps
    /\ prev' = tree
    /\ tree' = newTree
    /\ last' = call
    /\ ret' = result
    /\ base' = IF call = last THEN prev ELSE Nil
    /\ nops' = nops + 1
    /\ UNCHANGED <<text, pc, out, round>>

\* tree.Add(keyPath, newVal)
CallAdd(keyPath, newVal) ==
    Edited(Call("Add", keyPath, newVal), Add(tree, keyPath, newVal), Nil)

\* tree.Remove(keyPath)
CallRemove(keyPath) ==
    Edited(Call("Remove", keyPath, Nil), Remove(tree, keyPath), Nil)

\* tree.RemoveSection(secName)
CallRemoveSection(secName) ==
    Edited(Call("RemoveSection", secName, Nil), RemoveSection(tree, secName), Nil)

\* prop := tree.Lookup(keyPath)
CallLookup(keyPath) ==
    Edited(Call("Lookup", keyPath, Nil), tree, Lookup(tree, keyPath))

\* sect := tree.LookupSection(secName)
CallLookupSection(secName) ==
    Edited(Call("LookupSection", secName, Nil), tree, LookupSection(tree, secName))

\* The comment lists a caller gives to a property whose comments are old: one
\* line, two lines, and the old lines with one more appended.
NewComments(old) ==
    { <<CommentLine>>, <<CommentLine, <<";", "n">>>>, old \o <<<<";", "n">>>> }

\* prop := tree.Lookup(keyPath); if prop != nil, prop.Comments = comments
CallSetComments(keyPath) ==
    /\ pc = "parsed"
    /\ Lookup(tree, keyPath) # Nil
    /\ \E comments \in NewComments(Lookup(tree, keyPath).Comments) :
          Edited(Call("SetComments", keyPath, [comments |-> comments]),
                 WriteComments(tree, keyPath, comments),
                 Lookup(tree, keyPath))

\* have := tree.String()
CallString ==
    /\ pc = "parsed"
    /\ out' = AST_String(tree)
    /\ pc' = "rendered"
    /\ UNCHANGED <<text, tree, prev, last, ret, base, nops, round>>

\* The output is parsed again: parser.ParseString("", have)
CallReparse ==
    /\ pc = "rendered"
    /\ round < MaxRounds
    /\ text' = out
    /\ \E r \in ParseString(out) :
          /\ pc' = IF r.ok THEN "parsed" ELSE "failed"
          /\ tree' = r.tree
    /\ prev' = Nil
    /\ last' = NoCall
    /\ ret' = Nil
    /\ base' = Nil
    /\ round' = round + 1
    /\ UNCHANGED <<out, nops>>

Next ==
    \/ CallParseString
    \/ \E p \in Paths, v \in Values : CallAdd(p, v)
    \/ \E p \in Paths : CallRemove(p)
    \/ \E n \in SecNames : CallRemoveSection(n)
    \/ \E p \in Paths : CallLookup(p)
    \/ \E n \in SecNames : CallLookupSection(n)
    \/ CallString

Spec == Init /\ [][Next]_vars

NextRT ==
    \/ CallParseString
    \/ CallString
    \/ CallReparse

SpecRT == InitRT /\ [][NextRT]_vars

NextRef ==
    \/ CallParseString
    \/ \E p \in Paths, v \in Values : CallAdd(p, v)
    \/ \E p \in Paths : CallSetComments(p)
    \/ CallString

\* A caller that parses, adds properties and writes comments through Lookup.
SpecRef == Init /\ [][NextRef]_vars

(***************************************************************************)
(* Words used to state the properties.                                     *)
(***************************************************************************)
RECURSIVE SplitLines(_)
\* The lines of a text, each without its newline (a last line without one too).
SplitLines(t) ==
    IF t = <<>> THEN <<>>
    ELSE LET e == LineEnd(t, 1)
         IN  <<SubSeq(t, 1, e - 1)>> \o SplitLines(SubSeq(t, e + 1, Len(t)))

EndsWithNewline(t) == t # <<>> /\ t[Len(t)] = NL
NoLeadingBlankLine(t) == t # <<>> /\ t[1] # NL

IsIdentText(x) ==
    /\ x # <<>>
    /\ x[1] \in Letter
    /\ \A k \in 1..Len(x) : x[k] \in Letter \cup Digit \cup {"_"}

\* A number or a quoted string written as the encoder writes it.
IsNumberText(v) == MatchFloat(v, 1) = Len(v) + 1
IsStringText(v) == MatchString(v, 1) = Len(v) + 1 /\ Unquote(v).ok
CanonicalValue(v) ==
    /\ v # <<>>
    /\ \/ v[1] \in Digit /\ IsNumberText(v) /\ Number_String(ParseFloat(v)) = v
       \/ v[1] = QUOTE /\ IsStringText(v) /\ String_String(String(Unquote(v).value)) = v

\* A line as the encoder writes it: empty, a comment from the first column on,
\* [name], or key = value with the value in the encoder's form.
CanonicalLine(l) ==
    \/ l = <<>>
    \/ l[1] \in {"#", ";"}
    \/ Len(l) >= 3 /\ l[1] = "[" /\ l[Len(l)] = "]" /\ IsIdentText(SubSeq(l, 2, Len(l) - 1))
    \/ \E k \in 1..Len(l) :
          /\ IsIdentText(SubSeq(l, 1, k))
          /\ Len(l) >= k + 4
          /\ SubSeq(l, k + 1, k + 3) = <<" ", "=", " ">>
          /\ CanonicalValue(SubSeq(l, k + 4, Len(l)))

CanonicalText(t) == \A k \in 1..Len(SplitLines(t)) : CanonicalLine(SplitLines(t)[k])

AllProperties(t) ==
    t.Properties \o Concat([k \in 1..Len(t.Sections) |-> t.Sections[k].Properties])

(***************************************************************************)
(* C1  Round-trip stability.                                               *)
(***************************************************************************)
\* C1, as claimed: every text that the parser accepts, that has no leading blank
\* line and that ends with a newline is encoded back exactly as it was.
C1_RoundTripAnyFormat ==
    (pc = "rendered" /\ NoLeadingBlankLine(text) /\ EndsWithNewline(text)) => out = text

\* C1, amended: every text that the parser accepts, that has no leading blank
\* line, that ends with a newline and whose lines are written as the encoder
\* writes them is encoded back exactly as it was.
C1_RoundTripCanonical ==
    (pc = "rendered" /\ NoLeadingBlankLine(text) /\ EndsWithNewline(text)
       /\ CanonicalText(text)) => out = text

\* A canonical text with a commented property, a blank line, a commented section
\* and a property inside it has been parsed and encoded.
C1_Witness ==
    /\ pc = "rendered"
    /\ round = 0
    /\ NoLeadingBlankLine(text) /\ EndsWithNewline(text) /\ CanonicalText(text)
    /\ Len(tree.Properties) >= 1
    /\ Len(tree.Sections) >= 1
    /\ \E k \in 1..Len(tree.Properties) :
          tree.Properties[k].Comments # <<>> /\ tree.Properties[k].BlankLines # <<>>
    /\ \E k \in 1..Len(tree.Sections) :
          tree.Sections[k].Comments # <<>> /\ tree.Sections[k].Properties # <<>>

(***************************************************************************)
(* C2  Idempotent re-render.                                               *)
(***************************************************************************)
\* C2, as claimed: the encoding of a parsed text is accepted by the parser, and
\* encoding the tree parsed from it gives the same text again.
C2_RerenderFixedPoint ==
    round >= 1 => (pc # "failed" /\ (pc = "rendered" => out = text))

\* C2, for encodings that are not the empty text: such an encoding is accepted
\* by the parser, and encoding the tree parsed from it gives the same text again.
C2_RerenderFixedPointNonEmpty ==
    (round >= 1 /\ text # <<>>) => (pc # "failed" /\ (pc = "rendered" => out = text))

\* The encoding of a text that the first encoding changed (another spacing, a
\* number with a trailing zero, a section) has been parsed and encoded again.
C2_Witness ==
    /\ round = 1
    /\ pc = "rendered"
    /\ out = text
    /\ Len(tree.Sections) >= 1
    /\ \E k \in 1..Len(tree.Properties) : tree.Properties[k].Value.N.frac # <<>>

(***************************************************************************)
(* C3  Comment runs before a section header and before a property.         *)
(***************************************************************************)
Copies(n, x) == [k \in 1..n |-> x]

\* C3: after nothing, a global property, a section header or a property of a
\* section, a run of n >= 1 comment lines followed by [s] is parsed, with the n
\* comments on that section and none on a property; followed by a = 1 it is
\* parsed, with the n comments on that property and none on another node.
C3_CommentRunAttached ==
    \A ctx \in Contexts, n \in 1..MaxRun :
        /\ (pc # "input" /\ round = 0 /\ text = RunBefore(ctx, n, HeaderLine)) =>
              /\ pc # "failed"
              /\ tree.Sections # <<>>
              /\ tree.Sections[Len(tree.Sections)].Comments = Copies(n, CommentLine)
              /\ \A k \in 1..Len(AllProperties(tree)) : AllProperties(tree)[k].Comments = <<>>
        /\ (pc # "input" /\ round = 0 /\ text = RunBefore(ctx, n, PropertyLine)) =>
              /\ pc # "failed"
              /\ AllProperties(tree) # <<>>
              /\ LET ps == AllProperties(tree)
                 IN  /\ ps[Len(ps)].Comments = Copies(n, CommentLine)
                     /\ \A k \in 1..(Len(ps) - 1) : ps[k].Comments = <<>>
              /\ \A k \in 1..Len(tree.Sections) : tree.Sections[k].Comments = <<>>

(***************************************************************************)
(* Words used to state the properties of the editor.                       *)
(***************************************************************************)
\* The positions of the properties of key k, of the sections of name n.
KeyMatches(ps, k) == {j \in 1..Len(ps) : ps[j].Key = k}
NameMatches(ss, n) == {j \in 1..Len(ss) : ss[j].Name = n}
Least(S) == CHOOSE j \in S : \A m \in S : j <= m

\* The sequence a without its element at position k.
Without(a, k) == [j \in 1..(Len(a) - 1) |-> IF j < k THEN a[j] ELSE a[j + 1]]

\* The scope a key path addresses: the global scope when the path names no
\* section, else the first section of that name, if there is one.
HasScope(t, sec) == sec = <<>> \/ NameMatches(t.Sections, sec) # {}
ScopeProps(t, sec) ==
    IF sec = <<>> THEN t.Properties
    ELSE t.Sections[Least(NameMatches(t.Sections, sec))].Properties

\* The tree t with the properties of the addressed scope replaced by ps, and
\* everything else as it is in t.
WithScope(t, sec, ps) ==
    IF sec = <<>>
    THEN [BlankLines |-> t.BlankLines, Properties |-> ps, Sections |-> t.Sections]
    ELSE [BlankLines |-> t.BlankLines,
          Properties |-> t.Properties,
          Sections |-> [j \in 1..Len(t.Sections) |->
                           IF j = Least(NameMatches(t.Sections, sec))
                           THEN [Comments |-> t.Sections[j].Comments,
                                 Name |-> t.Sections[j].Name,
                                 BlankLines |-> t.Sections[j].BlankLines,
                                 Properties |-> ps]
                           ELSE t.Sections[j]]]

\* The section and the key a path of the form section/key or key names.
PathSection(p) ==
    IF \E j \in 1..Len(p) : p[j] = "/"
    THEN SubSeq(p, 1, Least({j \in 1..Len(p) : p[j] = "/"}) - 1) ELSE <<>>
PathKey(p) ==
    IF \E j \in 1..Len(p) : p[j] = "/"
    THEN SubSeq(p, Least({j \in 1..Len(p) : p[j] = "/"}) + 1, Len(p)) ELSE p

(***************************************************************************)
(* C4  Remove.                                                             *)
(***************************************************************************)
\* C4: Remove(path) removes the first property of that key from the addressed
\* scope (the global scope, or the first section of the given name) and leaves
\* the tree as it is when there is no such scope or no such key; every other
\* scope, every other node and the order of the nodes stay as they were.
C4_RemoveFirstInScope ==
    last.op = "Remove" =>
        LET sec == PathSection(last.path)
            key == PathKey(last.path)
        IN  IF HasScope(prev, sec) /\ KeyMatches(ScopeProps(prev, sec), key) # {}
            THEN tree = WithScope(prev, sec,
                                  Without(ScopeProps(prev, sec),
                                          Least(KeyMatches(ScopeProps(prev, sec), key))))
            ELSE tree = prev

\* Remove of a section path has removed the first of two properties of that key
\* from the section, while the global scope holds a property of the same key.
C4_Witness ==
    /\ last.op = "Remove"
    /\ PathSection(last.path) # <<>>
    /\ HasScope(prev, PathSection(last.path))
    /\ Cardinality(KeyMatches(ScopeProps(prev, PathSection(last.path)), PathKey(last.path))) = 2
    /\ Cardinality(KeyMatches(ScopeProps(tree, PathSection(last.path)), PathKey(last.path))) = 1
    /\ KeyMatches(prev.Properties, PathKey(last.path)) # {}
    /\ tree.Properties = prev.Properties

(***************************************************************************)
(* C5  Properties and sections have separate names.                        *)
(***************************************************************************)
\* C5: Remove never changes the list of the sections, that is its length and the
\* name, the comments and the blank lines of each section, whether or not a
\* section has the name given as key and also when the last property of a
\* section is removed; Remove of a path without a section leaves every section
\* wholly as it was; RemoveSection never changes the global properties, whether
\* or not one of them has the name as its key.
C5_DisjointNamespaces ==
    /\ last.op = "Remove" =>
          /\ Len(tree.Sections) = Len(prev.Sections)
          /\ \A j \in 1..Len(prev.Sections) :
                /\ tree.Sections[j].Name = prev.Sections[j].Name
                /\ tree.Sections[j].Comments = prev.Sections[j].Comments
                /\ tree.Sections[j].BlankLines = prev.Sections[j].BlankLines
          /\ PathSection(last.path) = <<>> => tree.Sections = prev.Sections
    /\ last.op = "RemoveSection" => tree.Properties = prev.Properties

\* A tree holds a property and a section of one name, and Remove of that name as
\* a key path has removed the property.
C5_Witness ==
    /\ last.op = "Remove"
    /\ PathSection(last.path) = <<>>
    /\ KeyMatches(prev.Properties, last.path) # {}
    /\ NameMatches(prev.Sections, last.path) # {}
    /\ KeyMatches(tree.Properties, last.path) = {}
    /\ NameMatches(tree.Sections, last.path) # {}

(***************************************************************************)
(* C6  Add of a key that the scope holds.                                  *)
(***************************************************************************)
\* C6: when the addressed scope holds a property of the key, Add(path, value)
\* gives the first such property the new value and leaves its position, its
\* comments, its blank lines and every other node as they were.
C6_AddReplacesInPlace ==
    (last.op = "Add" /\ HasScope(prev, PathSection(last.path))
       /\ KeyMatches(ScopeProps(prev, PathSection(last.path)), PathKey(last.path)) # {}) =>
        LET sec == PathSection(last.path)
            ps == ScopeProps(prev, sec)
            k == Least(KeyMatches(ps, PathKey(last.path)))
        IN  tree = WithScope(prev, sec,
                             [j \in 1..Len(ps) |->
                                 IF j = k
                                 THEN [Comments |-> ps[k].Comments,
                                       Key |-> ps[k].Key,
                                       Value |-> last.val,
                                       BlankLines |-> ps[k].BlankLines]
                                 ELSE ps[j]])

\* Add has given a value of the other variant to a property that has a comment,
\* blank lines after it and a property behind it.
C6_Witness ==
    /\ last.op = "Add"
    /\ HasScope(prev, PathSection(last.path))
    /\ LET ps == ScopeProps(prev, PathSection(last.path))
           hits == KeyMatches(ps, PathKey(last.path))
       IN  /\ hits # {}
           /\ Least(hits) < Len(ps)
           /\ ps[Least(hits)].Comments # <<>>
           /\ ps[Least(hits)].BlankLines # <<>>
           /\ ps[Least(hits)].Value.type # last.val.type
    /\ tree # prev

(***************************************************************************)
(* C7  Add of a key that the scope does not hold.                          *)
(***************************************************************************)
\* The property Add makes: no comments, no blank lines.
NewProperty(key, val) == [Comments |-> <<>>, Key |-> key, Value |-> val, BlankLines |-> <<>>]

\* C7: when the addressed scope is there and holds no property of the key, Add
\* appends a property without comments and blank lines at the end of that scope;
\* when the path names a section that is not there, Add appends at the end of
\* the sections a section of that name that holds the new property only.
C7_AddAppends ==
    last.op = "Add" =>
        LET sec == PathSection(last.path)
            key == PathKey(last.path)
        IN  /\ (HasScope(prev, sec) /\ KeyMatches(ScopeProps(prev, sec), key) = {}) =>
                  tree = WithScope(prev, sec,
                                   ScopeProps(prev, sec) \o <<NewProperty(key, last.val)>>)
            /\ ~HasScope(prev, sec) =>
                  tree = [BlankLines |-> prev.BlankLines,
                          Properties |-> prev.Properties,
                          Sections |-> prev.Sections \o
                              <<[Comments |-> <<>>, Name |-> sec, BlankLines |-> <<>>,
                                 Properties |-> <<NewProperty(key, last.val)>>]>>]

\* Add of a path whose section is missing has appended the section behind the
\* sections of a tree that holds a property and a section.
C7_Witness ==
    /\ last.op = "Add"
    /\ PathSection(last.path) # <<>>
    /\ ~HasScope(prev, PathSection(last.path))
    /\ prev.Properties # <<>>
    /\ prev.Sections # <<>>
    /\ Len(tree.Sections) = Len(prev.Sections) + 1
    /\ tree.Sections[Len(tree.Sections)].Name = PathSection(last.path)

(***************************************************************************)
(* C8  RemoveSection.                                                      *)
(***************************************************************************)
\* C8: RemoveSection(name) removes the first section of that name with all its
\* properties and leaves everything else as it was; without such a section the
\* tree stays as it was.
C8_RemoveSectionFirst ==
    last.op = "RemoveSection" =>
        IF NameMatches(prev.Sections, last.path) # {}
        THEN tree = [BlankLines |-> prev.BlankLines,
                     Properties |-> prev.Properties,
                     Sections |-> Without(prev.Sections,
                                          Least(NameMatches(prev.Sections, last.path)))]
        ELSE tree = prev

\* RemoveSection has removed the first of two sections of one name, a section
\* with a property, and the second one is still there.
C8_Witness ==
    /\ last.op = "RemoveSection"
    /\ Cardinality(NameMatches(prev.Sections, last.path)) = 2
    /\ prev.Sections[Least(NameMatches(prev.Sections, last.path))].Properties # <<>>
    /\ Cardinality(NameMatches(tree.Sections, last.path)) = 1

(***************************************************************************)
(* C9  Lookup and LookupSection.                                           *)
(***************************************************************************)
\* C9: Lookup(path) returns the first property of the key in the scope that
\* Remove addresses for the path, or nothing; LookupSection(name) returns the
\* first section of the name, or nothing; neither changes the tree.
C9_LookupFirstMatch ==
    /\ last.op = "Lookup" =>
          /\ tree = prev
          /\ LET sec == PathSection(last.path)
                 key == PathKey(last.path)
             IN  IF HasScope(prev, sec) /\ KeyMatches(ScopeProps(prev, sec), key) # {}
                 THEN ret = ScopeProps(prev, sec)[Least(KeyMatches(ScopeProps(prev, sec), key))]
                 ELSE ret = Nil
    /\ last.op = "LookupSection" =>
          /\ tree = prev
          /\ IF NameMatches(prev.Sections, last.path) # {}
             THEN ret = prev.Sections[Least(NameMatches(prev.Sections, last.path))]
             ELSE ret = Nil

\* Lookup of a section path has found nothing in the first section of the name,
\* while a later section of the same name holds the key.
C9_Witness ==
    /\ last.op = "Lookup"
    /\ PathSection(last.path) # <<>>
    /\ ret = Nil
    /\ \E j \in NameMatches(tree.Sections, PathSection(last.path)) :
          KeyMatches(tree.Sections[j].Properties, PathKey(last.path)) # {}

(***************************************************************************)
(* C10  The same editor call twice.                                        *)
(***************************************************************************)
\* base is the tree before the first of two equal calls in a row, prev the tree
\* between them, tree the tree after the second.
Twice == base # Nil /\ last.op \in {"Add", "Remove", "RemoveSection"}

\* How many nodes the call last can act on in the tree t.
Targets(t) ==
    IF last.op = "RemoveSection" THEN Cardinality(NameMatches(t.Sections, last.path))
    ELSE IF HasScope(t, PathSection(last.path))
         THEN Cardinality(KeyMatches(ScopeProps(t, PathSection(last.path)), PathKey(last.path)))
         ELSE 0

\* C10, as claimed: an Add, Remove or RemoveSection made a second time with the
\* same arguments leaves the tree as the first call left it.
C10_SecondCallNoChange == Twice => tree = prev

\* C10, amended: Add made a second time with the same arguments leaves the tree
\* as the first call left it; so do Remove and RemoveSection when the tree before
\* the first call holds at most one property of the key in the addressed scope,
\* at most one section of the name; when it holds more, the second call removes
\* the next one.
C10_SecondCallNoChangeUnlessDuplicates ==
    Twice =>
        /\ last.op = "Add" => tree = prev
        /\ (last.op # "Add" /\ Targets(base) <= 1) => tree = prev
        /\ (last.op # "Add" /\ Targets(base) >= 2) =>
              /\ tree # prev
              /\ Targets(tree) = Targets(base) - 2

\* A Remove that removed the only property of its key has been made a second
\* time, and an Add that appended a property likewise.
C10_Witness ==
    /\ Twice
    /\ prev # base
    /\ tree = prev
    /\ \/ last.op = "Remove" /\ Targets(base) = 1
       \/ last.op = "Add" /\ Targets(base) = 0

(***************************************************************************)
(* C11  The trailing newline of the output.                                *)
(***************************************************************************)
RECURSIVE TrailingNewlines(_)
\* How many newlines the text t ends with.
TrailingNewlines(t) ==
    IF t = <<>> \/ t[Len(t)] # NL THEN 0
    ELSE 1 + TrailingNewlines(SubSeq(t, 1, Len(t) - 1))

\* The blank lines of the node the output ends with: the last property of the
\* last section, that section when it has no property, the last global property
\* when there is no section.
LastBlankLines(t) ==
    IF t.Sections # <<>>
    THEN LET sec == t.Sections[Len(t.Sections)]
         IN  IF sec.Properties # <<>> THEN sec.Properties[Len(sec.Properties)].BlankLines
             ELSE sec.BlankLines
    ELSE t.Properties[Len(t.Properties)].BlankLines

NoNodes(t) == t.Properties = <<>> /\ t.Sections = <<>>

\* C11, as claimed: the encoding of a parsed tree, edited or not, ends with
\* exactly one newline.
C11_SingleTrailingNewline == pc = "rendered" => TrailingNewlines(out) = 1

\* C11, amended: the encoding of a parsed tree, edited or not, that holds a
\* property or a section ends with one newline and one more for each blank line
\* of the node the output ends with; the encoding of a tree without properties
\* and sections is the empty text.
C11_TrailingNewlineOfLastNode ==
    pc = "rendered" =>
        IF NoNodes(tree) THEN out = <<>>
        ELSE TrailingNewlines(out) = 1 + Len(LastBlankLines(tree))

\* A text without a final newline has been parsed, edited and encoded, and the
\* output ends with one newline.
C11_Witness ==
    /\ pc = "rendered"
    /\ text # <<>> /\ ~EndsWithNewline(text)
    /\ last.op \in {"Add", "Remove", "RemoveSection"}
    /\ tree # prev
    /\ ~NoNodes(tree)
    /\ TrailingNewlines(out) = 1

(***************************************************************************)
(* C12  The blank lines before the first node.                             *)
(***************************************************************************)
RECURSIVE StripLeadingNewlines(_)
\* The text t without the newlines it starts with.
StripLeadingNewlines(t) ==
    IF t # <<>> /\ t[1] = NL THEN StripLeadingNewlines(Tail(t)) ELSE t

\* C12: the encoding of a parsed text does not start with an empty line, it is
\* the encoding of the same tree without the blank lines recorded for the root,
\* and it is the encoding of the text parsed without its leading newlines (when
\* a token is left then).
C12_LeadingBlankLinesDropped ==
    pc = "rendered" =>
        /\ out = <<>> \/ out[1] # NL
        /\ out = AST_String([BlankLines |-> <<>>,
                             Properties |-> tree.Properties,
                             Sections |-> tree.Sections])
        /\ Lex(StripLeadingNewlines(text)).toks # <<>> =>
              \A r \in ParseString(StripLeadingNewlines(text)) :
                  r.ok /\ r.tree.BlankLines = <<>> /\ AST_String(r.tree) = out

\* A text that starts with two blank lines before a property has been parsed,
\* both are recorded for the root, and the tree has been encoded.
C12_Witness ==
    /\ pc = "rendered"
    /\ Len(tree.BlankLines) >= 2
    /\ tree.Properties # <<>>
    /\ out # <<>>

(***************************************************************************)
(* C13  The output of an edited tree is parsed back.                       *)
(***************************************************************************)
\* Some property of the tree t has a number below zero as its value.
HoldsNegativeNumber(t) ==
    \E k \in 1..Len(AllProperties(t)) :
        LET v == AllProperties(t)[k].Value IN v.type = "Number" /\ v.N.neg

\* C13, for texts and outputs that hold at least one character: the encoding of
\* a parsed tree after any calls of Add, Remove and RemoveSection is accepted by
\* the parser and parsed to the same properties and sections, with the same
\* values, comments and blank lines.
C13_OutputParsesBack ==
    (pc = "rendered" /\ text # <<>> /\ out # <<>>) =>
        \A r \in ParseString(out) :
            /\ r.ok
            /\ r.tree.Properties = tree.Properties
            /\ r.tree.Sections = tree.Sections

(***************************************************************************)
(* C14  Lookup returns the property of the tree, not a copy.               *)
(***************************************************************************)
\* The tree t cut before the k-th property of the scope sec: what the encoder
\* writes before it reaches that property.
TreeBefore(t, sec, k) ==
    IF sec = <<>>
    THEN [BlankLines |-> t.BlankLines,
          Properties |-> SubSeq(t.Properties, 1, k - 1),
          Sections |-> <<>>]
    ELSE LET si == Least(NameMatches(t.Sections, sec))
         IN  [BlankLines |-> t.BlankLines,
              Properties |-> t.Properties,
              Sections |-> [j \in 1..si |->
                               IF j = si
                               THEN [Comments |-> t.Sections[j].Comments,
                                     Name |-> t.Sections[j].Name,
                                     BlankLines |-> t.Sections[j].BlankLines,
                                     Properties |-> SubSeq(t.Sections[j].Properties, 1, k - 1)]
                               ELSE t.Sections[j]]]

\* Each line of ls followed by a newline, in the order of ls.
OnePerLine(ls) == Concat([j \in 1..Len(ls) |-> ls[j] \o <<NL>>])

\* C14: after p = Lookup(path) returned a property and the caller gave p a new
\* list of comments, the output is the output of the tree before, with the new
\* comments, one per line and in their order, in the place of the old ones
\* right before the key = value line of that property, and nothing else changed.
C14_CommentsWrittenThroughLookup ==
    last.op = "SetComments" =>
        LET sec == PathSection(last.path)
            ps == ScopeProps(prev, sec)
            k == Least(KeyMatches(ps, PathKey(last.path)))
            before == AST_String(TreeBefore(prev, sec, k))
            old == OnePerLine(ps[k].Comments)
            new == OnePerLine(last.val.comments)
            line == ps[k].Key \o <<" ", "=", " ">> \o Value_String(ps[k].Value) \o <<NL>>
            o1 == AST_String(prev)
            o2 == AST_String(tree)
            n == Len(before)
        IN  /\ ret = ps[k]
            /\ SubSeq(o1, 1, n) = before
            /\ SubSeq(o2, 1, n) = before
            /\ SubSeq(o1, n + 1, n + Len(old)) = old
            /\ SubSeq(o2, n + 1, n + Len(new)) = new
            /\ SubSeq(o1, n + Len(old) + 1, Len(o1)) = SubSeq(o2, n + Len(new) + 1, Len(o2))
            /\ SubSeq(o2, n + Len(new) + 1, n + Len(new) + Len(line)) = line

\* A property that Add made in a section, behind another property, has been
\* looked up and given two comment lines.
C14_Witness ==
    /\ last.op = "SetComments"
    /\ PathSection(last.path) # <<>>
    /\ Len(last.val.comments) = 2
    /\ ret.Comments = <<>>
    /\ \A r \in ParseString(text) : r.ok => Lookup(r.tree, last.path) = Nil
    /\ tree # prev
    /\ Len(ScopeProps(tree, PathSection(last.path))) >= 2

(***************************************************************************)
(* C15  The order of the nodes.                                            *)
(***************************************************************************)
\* b is a without one element; b is a with one element more at its end.
OneRemoved(a, b) == \E k \in 1..Len(a) : b = Without(a, k)
OneAppended(a, b) == Len(b) = Len(a) + 1 /\ SubSeq(b, 1, Len(a)) = a

\* The properties b are the properties a, each at its place, but for values.
ValuesReplaced(a, b) ==
    /\ Len(b) = Len(a)
    /\ \A j \in 1..Len(a) :
          /\ b[j].Key = a[j].Key
          /\ b[j].Comments = a[j].Comments
          /\ b[j].BlankLines = a[j].BlankLines

\* One edit kept the order of a list of properties: the properties that stay keep
\* their places relative to each other, a new one is behind all of them.
PropertiesOrderKept(a, b) ==
    ValuesReplaced(a, b) \/ OneRemoved(a, b) \/ OneAppended(a, b)

\* The same for the list of the sections and for the properties in each.
SectionsOrderKept(a, b) ==
    \/ /\ Len(b) = Len(a)
       /\ \A j \in 1..Len(a) :
             /\ b[j].Name = a[j].Name
             /\ b[j].Comments = a[j].Comments
             /\ b[j].BlankLines = a[j].BlankLines
             /\ PropertiesOrderKept(a[j].Properties, b[j].Properties)
    \/ OneRemoved(a, b)
    \/ OneAppended(a, b)

\* The lines of the text o that are headers, and those that hold a property.
HeaderLines(o) == {j \in 1..Len(SplitLines(o)) :
                     SplitLines(o)[j] # <<>> /\ SplitLines(o)[j][1] = "["}
PropertyLines(o) == {j \in 1..Len(SplitLines(o)) :
                       SplitLines(o)[j] # <<>> /\ SplitLines(o)[j][1] \notin {"[", "#", ";"}}

\* C15: every Add, Remove and RemoveSection keeps the order of the global
\* properties, of the sections and of the properties of each section (the nodes
\* that stay keep their relative order, a node that Add makes is behind all
\* nodes its list had), so this holds after any sequence of them; and the
\* encoder writes all global properties before the first section.
C15_OrderPreserved ==
    /\ last.op \in {"Add", "Remove", "RemoveSection"} =>
          /\ PropertiesOrderKept(prev.Properties, tree.Properties)
          /\ SectionsOrderKept(prev.Sections, tree.Sections)
    /\ pc = "rendered" =>
          /\ Cardinality(HeaderLines(out)) = Len(tree.Sections)
          /\ Cardinality({j \in PropertyLines(out) : \A h \in HeaderLines(out) : j < h})
                = Len(tree.Properties)

\* After an earlier edit, Add has appended a global property behind the others
\* of a tree with a section, and the output has it before the section.
C15_Witness ==
    /\ pc = "rendered"
    /\ nops = 2
    /\ last.op = "Add"
    /\ prev.Properties # <<>>
    /\ OneAppended(prev.Properties, tree.Properties)
    /\ tree.Sections # <<>>
    /\ AllProperties(tree) # tree.Properties

(***************************************************************************)
(* C16  Add, Remove and Lookup resolve a path to the same node.            *)
(***************************************************************************)
\* The first place of the node p in the list ps.
PlaceOf(ps, p) == Least({j \in 1..Len(ps) : ps[j] = p})

\* C16: (1) Remove(path) changes the tree exactly when Lookup(path) returned a
\* property before the call, and it removes that property; (2) when Lookup(path)
\* returned a property, Add(path, v) gives v to that property and changes nothing
\* else; (3) after Add(path, v), Lookup(path) returns a property of value v.
C16_SameNodeResolved ==
    /\ last.op = "Remove" =>
          LET p == Lookup(prev, last.path)
              sec == PathSection(last.path)
          IN  /\ (tree # prev) <=> (p # Nil)
              /\ p # Nil =>
                    tree = WithScope(prev, sec,
                                     Without(ScopeProps(prev, sec),
                                             PlaceOf(ScopeProps(prev, sec), p)))
    /\ last.op = "Add" =>
          LET p == Lookup(prev, last.path)
              q == Lookup(tree, last.path)
              sec == PathSection(last.path)
          IN  /\ q # Nil
              /\ q.Value = last.val
              /\ p # Nil =>
                    /\ q = [Comments |-> p.Comments, Key |-> p.Key,
                            Value |-> last.val, BlankLines |-> p.BlankLines]
                    /\ tree = WithScope(prev, sec,
                                        [j \in 1..Len(ScopeProps(prev, sec)) |->
                                            IF j = PlaceOf(ScopeProps(prev, sec), p)
                                            THEN q ELSE ScopeProps(prev, sec)[j]])

\* Add of a section path on a tree with two sections of that name, of which the
\* first did not hold the key, and Lookup of the path finds the new value.
C16_Witness ==
    /\ last.op = "Add"
    /\ Cardinality(NameMatches(prev.Sections, PathSection(last.path))) = 2
    /\ Lookup(prev, last.path) = Nil
    /\ \E j \in NameMatches(prev.Sections, PathSection(last.path)) :
          KeyMatches(prev.Sections[j].Properties, PathKey(last.path)) # {}
    /\ Lookup(tree, last.path) # Nil
    /\ Lookup(tree, last.path).Value = last.val

(***************************************************************************)
(* C17  The parsed tree: typed values, and nodes when the output has text.  *)
(***************************************************************************)
\* The value v is of the variant String, of the variant Number.
IsString(v) == v.type = "String" /\ "S" \in DOMAIN v
IsNumber(v) == v.type = "Number" /\ "N" \in DOMAIN v

\* C17: in the tree of every accepted text each property value is a String or a
\* Number and not both, and when the encoding of the tree is not the empty text
\* the tree holds a global property or a section.
C17_TypedValuesAndNodes ==
    pc \in {"parsed", "rendered"} =>
        /\ \A k \in 1..Len(AllProperties(tree)) :
              LET v == AllProperties(tree)[k].Value
              IN  /\ IsString(v) \/ IsNumber(v)
                  /\ ~("S" \in DOMAIN v /\ "N" \in DOMAIN v)
        /\ AST_String(tree) # <<>> => (tree.Properties # <<>> \/ tree.Sections # <<>>)

\* A text with a string value, a number value and a section has been parsed and
\* encoded to a text that is not empty.
C17_Witness ==
    /\ pc = "rendered"
    /\ round = 0
    /\ out # <<>>
    /\ tree.Sections # <<>>
    /\ \E k \in 1..Len(AllProperties(tree)) : IsString(AllProperties(tree)[k].Value)
    /\ \E k \in 1..Len(AllProperties(tree)) : IsNumber(AllProperties(tree)[k].Value)

====
